---- MODULE Spec2Model ----
(***************************************************************************)
(* Model of script/run_yolo_model2.py: run_yolo_inference, the batch       *)
(* driver that enumerates the images of a folder, runs the detector on     *)
(* each one and exports the detections to the ledger (detections.csv),     *)
(* the label files, the crop files and the annotated images.               *)
(*                                                                         *)
(* A state holds the input folder, the output folder's files, the local    *)
(* variables of the running call and what the last call returned.  The     *)
(* detector and the file system calls are external: what they return for   *)
(* one image (its boxes, and which call fails) is chosen when the image    *)
(* is first processed and kept from then on (a deterministic detector).    *)
(* Calls follow one another on the same output folder; between two calls   *)
(* the images folder may get other files.                                  *)
(***************************************************************************)
EXTENDS Integers, Sequences, FiniteSets, TLC

VARIABLES
  folder,            \* the files of images_folder (names)
  flags,             \* save_labels, save_crops, save_annotated
  world,             \* per image: what the detector and the I/O calls do
  ledger,            \* detections.csv: sequence of rows, <<>> = no file
  labels,            \* labels/: file name -> sequence of lines
  crops,             \* crops/: file name -> the cropped pixel grid
  annotated,         \* annotated/: the file names written
  pc,                \* "idle", "loop" (inside the for loop), "done" (returned)
  image_files,       \* the sorted list of line 44-45
  pos,               \* number of images the for loop has iterated
  total_detections,  \* line 53
  processed_images,  \* line 54
  summary,           \* the returned dict
  counted,           \* history: images for which line 129 ran in this call
  failed,            \* history: images of this call with a failing step
  handed,            \* history: images of this call handed to the detector
  written,           \* history: the rows this call wrote after the header
  wrote,             \* history: <<directory, file name, image>> written in this call
  same,              \* history: this call enumerated the files of the previous call
  prevLedger         \* history: if same, the ledger the previous call left

vars == <<folder, flags, world, ledger, labels, crops, annotated, pc,
          image_files, pos, total_detections, processed_images, summary,
          counted, failed, handed, written, wrote, same, prevLedger>>

\* Largest number of boxes the detector returns for one image.
MaxDet == 2

-----------------------------------------------------------------------------
(* File names.  A name is a string; Chars gives its character codes, which  *)
(* is what sorting compares; Stem and Suffix are Path.stem and Path.suffix. *)

AllFiles == {"B.JPG", "a.jpg", "a.png", "n.txt"}

Chars == [n \in AllFiles |->
           CASE n = "B.JPG" -> <<66, 46, 74, 80, 71>>
             [] n = "a.jpg" -> <<97, 46, 106, 112, 103>>
             [] n = "a.png" -> <<97, 46, 112, 110, 103>>
             [] n = "n.txt" -> <<110, 46, 116, 120, 116>>]

Stem == [n \in AllFiles |->
          CASE n = "B.JPG" -> "B"
            [] n = "a.jpg" -> "a"
            [] n = "a.png" -> "a"
            [] n = "n.txt" -> "n"]

Suffix == [n \in AllFiles |->
            CASE n = "B.JPG" -> ".JPG"
              [] n = "a.jpg" -> ".jpg"
              [] n = "a.png" -> ".png"
              [] n = "n.txt" -> ".txt"]

\* str.lower() on the suffixes that occur
Lower(s) == IF s = ".JPG" THEN ".jpg" ELSE s

image_extensions == {".jpg", ".jpeg", ".png", ".bmp", ".tiff", ".tif"}

\* line 44: the files of the folder with a supported extension
Eligible(dir) == {n \in dir : Lower(Suffix[n]) \in image_extensions}

\* Sequence comparison as Python compares strings: first differing code,
\* a proper prefix is smaller.
RECURSIVE LexLess(_, _)
LexLess(s, t) ==
  IF s = <<>> THEN t # <<>>
  ELSE IF t = <<>> THEN FALSE
  ELSE IF Head(s) # Head(t) THEN Head(s) < Head(t)
  ELSE LexLess(Tail(s), Tail(t))

NameLess(m, n) == LexLess(Chars[m], Chars[n])

RECURSIVE SortedDescending(_)
SortedDescending(S) ==
  IF S = {} THEN <<>>
  ELSE LET m == CHOOSE x \in S : \A y \in S \ {x} : NameLess(y, x)
       IN  <<m>> \o SortedDescending(S \ {m})

\* line 45: image_files.sort()
RECURSIVE Sorted(_)
Sorted(S) ==
  IF S = {} THEN <<>>
  ELSE LET m == CHOOSE x \in S : \A y \in S \ {x} : NameLess(x, y)
       IN  <<m>> \o Sorted(S \ {m})

-----------------------------------------------------------------------------
(* The detector's output.  A box carries its class, its confidence (in     *)
(* hundredths) and xyxy, its corners x1, y1, x2, y2 in tenths of a pixel.  *)

Big  == [cls |-> 0, conf |-> 90, xyxy |-> <<100, 100, 500, 600>>]
Flat == [cls |-> 1, conf |-> 40, xyxy |-> <<200, 300, 200, 400>>]
Dets == {Big, Flat}

\* Every ordered result of at most MaxDet boxes.
DetSeqs == UNION {[1..n -> Dets] : n \in 0..MaxDet}

\* img.shape[:2] of line 70: height and width of every image, in pixels
ImgShape == <<80, 100>>

\* What happens to one image: the boxes the detector returns and the call
\* that fails: "ok" none, "detect" the detector raises (line 67), "decode"
\* cv2.imread returns None (line 69), "label" opening or touching the label
\* file raises (lines 84, 127), "imwrite" cv2.imwrite returns False (lines
\* 101, 119).
Fates == {"ok", "detect", "decode", "label", "imwrite"}
Unknown == [boxes |-> <<>>, fate |-> "unknown"]

\* Every result without a failure; the failures on the shortest results that
\* reach the failing call.
Worlds ==
  [boxes : DetSeqs, fate : {"ok"}]
    \cup [boxes : {<<>>}, fate : {"detect", "decode"}]
    \cup [boxes : {<<>>, <<Big>>}, fate : {"label"}]
    \cup [boxes : {<<Big>>}, fate : {"imwrite"}]

\* The outcomes that can happen under the flags f.
Applicable(w, f) ==
  CASE w.fate = "label"   -> f.save_labels
    [] w.fate = "imwrite" -> f.save_crops \/ f.save_annotated
    [] OTHER              -> TRUE

FlagChoices ==
  { [save_labels |-> FALSE, save_crops |-> FALSE, save_annotated |-> FALSE],
    [save_labels |-> TRUE,  save_crops |-> TRUE,  save_annotated |-> TRUE] }

\* The contents the images folder takes.
Folders ==
  { {"n.txt"},
    {"a.jpg", "a.png"},
    {"B.JPG", "a.jpg", "a.png", "n.txt"} }

-----------------------------------------------------------------------------
(* The output folder.  A directory is a function from the names of its     *)
(* files to their contents.                                                 *)

EmptyDir == <<>>

\* open(name, 'w') ... write: the file holds exactly content
Put(fs, name, content) ==
  [n \in (DOMAIN fs) \cup {name} |-> IF n = name THEN content ELSE fs[n]]

\* Path.touch(): creates the file empty when it is missing, leaves an
\* existing file's content alone
Touch(fs, name) == IF name \in DOMAIN fs THEN fs ELSE Put(fs, name, <<>>)

Dossier == "images"
Header == <<"dossier", "image", <<"detection_number">>, <<"score">>>>

\* open(csv_path, 'a') instead of 'w'
OpenLedgerAppend(old) == old \o <<Header>>

\* lines 58-60: open(csv_path, mode='w') and the header row
OpenLedger(old) == <<Header>>

\* f"detection{i - 1}"
DetectionRowsFromZero(img, boxes) ==
  [i \in 1..Len(boxes) |-> <<Dossier, img, <<"detection", i - 1>>, <<boxes[i].conf>>>>]

\* lines 76-79: one row per box, numbered from 1
DetectionRows(img, boxes) ==
  [i \in 1..Len(boxes) |-> <<Dossier, img, <<"detection", i>>, <<boxes[i].conf>>>>]

\* line 122
SentinelRow(img) == <<Dossier, img, <<"no-detection">>, <<>>>>

\* num/den with 6 decimals (f"{x:.6f}"), in millionths
Fixed6(num, den) ==
  LET q == (num * 1000000) \div den
      r == (num * 1000000) % den
  IN  IF 2 * r >= den THEN q + 1 ELSE q

\* lines 86-92: one label line, xyxy being in tenths of a pixel
LabelLine(box) ==
  LET x1 == box.xyxy[1]  y1 == box.xyxy[2]
      x2 == box.xyxy[3]  y2 == box.xyxy[4]
      img_height == ImgShape[1]
      img_width  == ImgShape[2]
  IN  << box.cls,
         Fixed6(x1 + x2, 2 * 10 * img_width),
         Fixed6(y1 + y2, 2 * 10 * img_height),
         Fixed6(x2 - x1, 10 * img_width),
         Fixed6(y2 - y1, 10 * img_height) >>

LabelLines(boxes) == [i \in 1..Len(boxes) |-> LabelLine(boxes[i])]

\* line 83, 126: f"{img_path.stem}.txt"
LabelName(img) == <<Stem[img], ".txt">>

\* the decimal digits of a natural number
RECURSIVE Digits(_)
Digits(n) == IF n < 10 THEN <<n>> ELSE Digits(n \div 10) \o <<n % 10>>

\* f"{i:03d}"
Pad3(i) ==
  LET d == Digits(i)
  IN  IF Len(d) >= 3 THEN d ELSE [k \in 1..(3 - Len(d)) |-> 0] \o d

\* line 99: f"{img_path.stem}_crop_{i:03d}.jpg"
CropName(img, i) == <<Stem[img], "_crop_", Pad3(i), ".jpg">>

\* line 118: f"{img_path.stem}_annotated{img_path.suffix}"
AnnotatedName(img) == <<Stem[img], "_annotated", Suffix[img]>>

\* box.xyxy[0].int(): truncation of tenths of a pixel to whole pixels
IntBox(box) == [k \in 1..4 |-> box.xyxy[k] \div 10]

\* number of indices of the slice a:b of an axis of length n (a, b >= 0)
SliceLen(a, b, n) ==
  LET lo == IF a < n THEN a ELSE n
      hi == IF b < n THEN b ELSE n
  IN  IF hi > lo THEN hi - lo ELSE 0

\* line 97-98: img[y1:y2, x1:x2]
Cropped(img, box) ==
  LET b == IntBox(box)
  IN  [src |-> img, box |-> b,
       w |-> SliceLen(b[1], b[3], ImgShape[2]),
       h |-> SliceLen(b[2], b[4], ImgShape[1])]

\* lines 96-101: the crops of boxes[i+1..], written into fs.  cv2.imwrite
\* raises on an empty pixel grid, and writes nothing and returns False when
\* silent.  n counts the files written.
RECURSIVE CropLoop(_, _, _, _, _)
CropLoop(fs, img, boxes, i, silent) ==
  IF i >= Len(boxes) THEN [files |-> fs, ok |-> TRUE, n |-> 0]
  ELSE LET c == Cropped(img, boxes[i + 1])
       IN  IF c.w = 0 \/ c.h = 0 THEN [files |-> fs, ok |-> FALSE, n |-> 0]
           ELSE IF silent THEN CropLoop(fs, img, boxes, i + 1, silent)
           ELSE LET r == CropLoop(Put(fs, CropName(img, i), c), img, boxes, i + 1, silent)
                IN  [r EXCEPT !.n = r.n + 1]

-----------------------------------------------------------------------------
(* run_yolo_inference                                                       *)

NoSummary == <<>>

\* labels/ before the first call: empty, or holding the file an earlier run
\* wrote for a.jpg when the detector found one box in it.
LabelsBefore == {EmptyDir, Put(EmptyDir, LabelName("a.jpg"), LabelLines(<<Big>>))}

Init ==
  /\ folder \in Folders
  /\ flags \in FlagChoices
  /\ world = [n \in AllFiles |-> Unknown]
  /\ ledger = <<>>
  /\ labels \in LabelsBefore
  /\ crops = EmptyDir
  /\ annotated = {}
  /\ pc = "idle"
  /\ image_files = <<>>
  /\ pos = 0
  /\ total_detections = 0
  /\ processed_images = 0
  /\ summary = NoSummary
  /\ counted = {}
  /\ failed = {}
  /\ handed = {}
  /\ written = <<>>
  /\ wrote = {}
  /\ same = FALSE
  /\ prevLedger = <<>>

\* What every call does on entry, whatever it finds (lines 16-45).
Enter ==
  /\ pc \in {"idle", "done"}
  /\ image_files' = Sorted(Eligible(folder))
  /\ pos' = 0
  /\ counted' = {}
  /\ failed' = {}
  /\ handed' = {}
  /\ written' = <<>>
  /\ wrote' = {}
  /\ same' = (pc = "done" /\ Sorted(Eligible(folder)) = image_files)
  /\ prevLedger' = IF same' THEN ledger ELSE <<>>
  /\ UNCHANGED <<folder, flags, world, labels, crops, annotated>>

\* lines 47-49: no eligible file, the call returns before it opens the ledger
ReturnNoImages ==
  /\ Enter
  /\ Eligible(folder) = {}
  /\ summary' = [total_images |-> 0, total_detections |-> 0]
  /\ pc' = "done"
  /\ UNCHANGED <<ledger, total_detections, processed_images>>

\* lines 51-60: counters zeroed, the ledger opened and its header written
StartLoop ==
  /\ Enter
  /\ Eligible(folder) # {}
  /\ total_detections' = 0
  /\ processed_images' = 0
  /\ ledger' = OpenLedger(ledger)
  /\ pc' = "loop"
  /\ UNCHANGED summary

\* The image of the current iteration and what the world does with it.
Current == image_files[pos + 1]

Iterating == pc = "loop" /\ pos < Len(image_files)

Decide(w) ==
  /\ w \in Worlds
  /\ Applicable(w, flags)
  /\ world[Current] \in {Unknown, w}
  /\ world' = [world EXCEPT ![Current] = w]

\* line 67 raises; lines 131-133 log and continue
DetectorFails ==
  /\ Iterating
  /\ \E w \in Worlds : Decide(w) /\ w.fate = "detect"
  /\ pos' = pos + 1
  /\ handed' = handed \cup {Current}
  /\ failed' = failed \cup {Current}
  /\ UNCHANGED <<folder, flags, ledger, labels, crops, annotated, pc, image_files,
                 total_detections, processed_images, summary, counted, written,
                 wrote, same, prevLedger>>

\* line 69 returns None, line 70 raises; lines 131-133 log and continue
DecodeFails ==
  /\ Iterating
  /\ \E w \in Worlds : Decide(w) /\ w.fate = "decode"
  /\ pos' = pos + 1
  /\ handed' = handed \cup {Current}
  /\ failed' = failed \cup {Current}
  /\ UNCHANGED <<folder, flags, ledger, labels, crops, annotated, pc, image_files,
                 total_detections, processed_images, summary, counted, written,
                 wrote, same, prevLedger>>

\* lines 73-119 and 129: an image with at least one box
ExportDetections ==
  /\ Iterating
  /\ \E w \in Worlds :
       /\ Decide(w)
       /\ w.fate \notin {"detect", "decode"}
       /\ Len(w.boxes) > 0
       /\ LET img == Current
              rows == DetectionRows(img, w.boxes)
              labelRaises == flags.save_labels /\ w.fate = "label"
              labelWritten == flags.save_labels /\ ~labelRaises
              cropRes == IF flags.save_crops /\ ~labelRaises
                         THEN CropLoop(crops, img, w.boxes, 0, w.fate = "imwrite")
                         ELSE [files |-> crops, ok |-> TRUE, n |-> 0]
              annotReached == flags.save_annotated /\ ~labelRaises /\ cropRes.ok
              annotWritten == annotReached /\ w.fate # "imwrite"
              raised == labelRaises \/ ~cropRes.ok
          IN  /\ total_detections' = total_detections + Len(w.boxes)
              /\ ledger' = ledger \o rows
              /\ written' = written \o rows
              /\ labels' = IF labelWritten
                           THEN Put(labels, LabelName(img), LabelLines(w.boxes))
                           ELSE labels
              /\ crops' = cropRes.files
              /\ annotated' = IF annotWritten
                              THEN annotated \cup {AnnotatedName(img)}
                              ELSE annotated
              /\ wrote' = wrote
                   \cup (IF labelWritten THEN {<<"labels", LabelName(img), img>>} ELSE {})
                   \cup {<<"crops", CropName(img, i), img>> : i \in 0..(cropRes.n - 1)}
                   \cup (IF annotWritten THEN {<<"annotated", AnnotatedName(img), img>>} ELSE {})
              /\ processed_images' = IF raised THEN processed_images ELSE processed_images + 1
              /\ counted' = IF raised THEN counted ELSE counted \cup {img}
              /\ failed' = IF raised \/ w.fate = "imwrite" THEN failed \cup {img} ELSE failed
  /\ pos' = pos + 1
  /\ handed' = handed \cup {Current}
  /\ UNCHANGED <<folder, flags, pc, image_files, summary, same, prevLedger>>

\* lines 120-129: an image without boxes
ExportNoDetection ==
  /\ Iterating
  /\ \E w \in Worlds :
       /\ Decide(w)
       /\ w.fate \notin {"detect", "decode"}
       /\ Len(w.boxes) = 0
       /\ LET img == Current
              touchRaises == flags.save_labels /\ w.fate = "label"
              touched == flags.save_labels /\ ~touchRaises
          IN  /\ ledger' = ledger \o <<SentinelRow(img)>>
              /\ written' = written \o <<SentinelRow(img)>>
              /\ labels' = IF touched THEN Touch(labels, LabelName(img)) ELSE labels
              /\ wrote' = IF touched
                          THEN wrote \cup {<<"labels", LabelName(img), img>>}
                          ELSE wrote
              /\ processed_images' = IF touchRaises THEN processed_images
                                     ELSE processed_images + 1
              /\ counted' = IF touchRaises THEN counted ELSE counted \cup {img}
              /\ failed' = IF touchRaises THEN failed \cup {img} ELSE failed
  /\ pos' = pos + 1
  /\ handed' = handed \cup {Current}
  /\ UNCHANGED <<folder, flags, crops, annotated, pc, image_files, total_detections,
                 summary, same, prevLedger>>

\* lines 135-147: the loop is over, the ledger is closed, the summary returned
Finish ==
  /\ pc = "loop"
  /\ pos = Len(image_files)
  /\ summary' = [total_images |-> Len(image_files),
                 processed_images |-> processed_images,
                 total_detections |-> total_detections,
                 output_folder |-> "inference_results",
                 csv_path |-> "inference_results/detections.csv"]
  /\ pc' = "done"
  /\ UNCHANGED <<folder, flags, world, ledger, labels, crops, annotated, image_files,
                 pos, total_detections, processed_images, counted, failed, handed,
                 written, wrote, same, prevLedger>>

\* Between two calls the caller's images folder gets other files.
ChangeFolder ==
  /\ pc = "done"
  /\ folder' \in Folders \ {folder}
  /\ UNCHANGED <<pc, flags, world, ledger, labels, crops, annotated, image_files, pos,
                 total_detections, processed_images, summary, counted, failed,
                 handed, written, wrote, same, prevLedger>>

Next ==
  \/ ReturnNoImages
  \/ StartLoop
  \/ DetectorFails
  \/ DecodeFails
  \/ ExportDetections
  \/ ExportNoDetection
  \/ Finish
  \/ ChangeFolder

Spec == Init /\ [][Next]_vars

-----------------------------------------------------------------------------
(* What the properties read.                                                *)

\* The rows of a ledger after its header; a ledger never created has none.
Body(l) == IF l = <<>> THEN <<>> ELSE Tail(l)

\* The ledger's rows of one image, in ledger order.
RowsOf(img) == SelectSeq(Body(ledger), LAMBDA r : r[2] = img)

Images(files) == {files[k] : k \in 1..Len(files)}

RECURSIVE SumBoxes(_)
SumBoxes(S) ==
  IF S = {} THEN 0
  ELSE LET x == CHOOSE y \in S : TRUE
       IN  Len(world[x].boxes) + SumBoxes(S \ {x})

\* The image of the iteration that just ended.
Last == image_files[pos]

Returned == pc = "done" /\ image_files # <<>>

-----------------------------------------------------------------------------
\* C1: when the call returns, every image counted in processed_images has in
\* the ledger either one row per box, labelled detection1..detectionN with the
\* boxes' confidences in detector order, or, when it has no box, exactly one
\* row "no-detection" with an empty score.
C1_RowsPerProcessedImage ==
  pc = "done" =>
    \A img \in counted :
      LET rows == RowsOf(img)
          boxes == world[img].boxes
      IN  IF Len(boxes) > 0
          THEN /\ Len(rows) = Len(boxes)
               /\ \A i \in 1..Len(rows) :
                    /\ rows[i][3] = <<"detection", i>>
                    /\ rows[i][4] = <<boxes[i].conf>>
          ELSE /\ Len(rows) = 1
               /\ rows[1][3] = <<"no-detection">>
               /\ rows[1][4] = <<>>

\* A call returned having processed an image with two boxes and an image
\* with none, and having failed on a third.
C1_Witness ==
  /\ pc = "done"
  /\ failed # {}
  /\ \E a, b \in counted : Len(world[a].boxes) = 2 /\ Len(world[b].boxes) = 0

\* C2: a call over N images of which the set F fails returns a summary with
\* total_images = N and processed_images = N - |F|, having handed every image
\* to the detector.
C2_FailuresIsolated ==
  Returned =>
    /\ handed = Images(image_files)
    /\ summary.total_images = Len(image_files)
    /\ summary.processed_images = Len(image_files) - Cardinality(failed)

\* The same with F the images on which a call raised: the loop's except
\* clause sees those, and only those.
RaisedFailuresIsolated ==
  Returned =>
    LET raisedOn == {img \in failed : world[img].fate # "imwrite"
                                      \/ img \notin counted}
    IN  /\ handed = Images(image_files)
        /\ summary.total_images = Len(image_files)
        /\ summary.processed_images = Len(image_files) - Cardinality(raisedOn)

\* C3: a call that finds no eligible file returns a summary in which the
\* three counters are present and zero.
C3_EmptySummaryComplete ==
  (pc = "done" /\ image_files = <<>>) =>
    /\ {"total_images", "processed_images", "total_detections"} \subseteq DOMAIN summary
    /\ summary.total_images = 0
    /\ summary.processed_images = 0
    /\ summary.total_detections = 0

\* C4: when a call has returned, whatever it found, the ledger (if there is
\* one) starts with the header and holds after it exactly the rows this call
\* wrote: no row of an earlier call survives.
C4_LedgerOverwritten ==
  pc = "done" =>
    /\ ledger # <<>> => Head(ledger) = Header
    /\ Body(ledger) = written

\* C5: with labels enabled, once an image is processed its label file exists
\* and has as many lines as the ledger has detection rows for the image.
C5_LabelMatchesLedger ==
  (pc \in {"loop", "done"} /\ pos > 0 /\ flags.save_labels /\ Last \in counted) =>
    /\ LabelName(Last) \in DOMAIN labels
    /\ Len(labels[LabelName(Last)])
         = Len(SelectSeq(RowsOf(Last), LAMBDA r : Head(r[3]) = "detection"))

\* C6: a call that enumerates the same files as the call before it, with the
\* same flags and the same detector and failures, leaves the ledger the call
\* before it left.
C6_SameLedgerTwice ==
  (pc = "done" /\ same) => ledger = prevLedger

\* A second call over the same three images returned, one image having
\* failed, and the ledger holds rows of both kinds.
C6_Witness ==
  /\ pc = "done"
  /\ same
  /\ Len(image_files) = 3
  /\ failed # {}
  /\ \E j, k \in 2..Len(ledger) :
       ledger[j][3] = <<"no-detection">> /\ ledger[k][3] = <<"detection", 2>>

\* C7: the ledger starts with the header; after it the images appear in
\* ascending name order with the rows of one image together, and the rows of
\* an image are its boxes in detector order (or its single no-detection row).
C7_LedgerOrder ==
  ledger # <<>> =>
    /\ Head(ledger) = Header
    /\ LET body == Body(ledger)
       IN  \A k \in 1..Len(body) :
             LET img == body[k][2]
                 first == CHOOSE j \in 1..k :
                            body[j][2] = img /\ \A h \in 1..(j - 1) : body[h][2] # img
                 i == k - first + 1
             IN  /\ \A j \in 1..(k - 1) : body[j][2] = img \/ NameLess(body[j][2], img)
                 /\ \A j \in first..k : body[j][2] = img
                 /\ \/ /\ body[k][3] = <<"no-detection">>
                       /\ world[img].boxes = <<>>
                       /\ i = 1
                    \/ /\ i <= Len(world[img].boxes)
                       /\ body[k][3] = <<"detection", i>>
                       /\ body[k][4] = <<world[img].boxes[i].conf>>

\* The example: a.jpg with the boxes of confidence 0.9 and 0.4, a.png with
\* none, give exactly these three rows after the header.
C7_Witness ==
  /\ pc = "done"
  /\ ledger = << Header,
                 <<Dossier, "a.jpg", <<"detection", 1>>, <<90>>>>,
                 <<Dossier, "a.jpg", <<"detection", 2>>, <<40>>>>,
                 <<Dossier, "a.png", <<"no-detection">>, <<>>>> >>

\* A box in whole pixels, with x1 <= x2 and y1 <= y2, inside the image.
WellFormed(box) ==
  /\ \A k \in 1..4 : box.xyxy[k] % 10 = 0
  /\ 0 <= box.xyxy[1] /\ box.xyxy[1] <= box.xyxy[3] /\ box.xyxy[3] <= 10 * ImgShape[2]
  /\ 0 <= box.xyxy[2] /\ box.xyxy[2] <= box.xyxy[4] /\ box.xyxy[4] <= 10 * ImgShape[1]

\* C8: with save_crops, an image whose n boxes are all well formed, and on
\* which nothing outside the program fails, is processed and gets exactly the
\* crop files of index 0..n-1, the file of index k-1 holding the region of
\* the box the ledger calls detection{k}, x2-x1 wide and y2-y1 high.
C8_CropPerDetection ==
  (/\ pc \in {"loop", "done"} /\ pos > 0 /\ flags.save_crops
   /\ world[Last].fate = "ok"
   /\ \A k \in 1..Len(world[Last].boxes) : WellFormed(world[Last].boxes[k])) =>
    LET boxes == world[Last].boxes
        n == Len(boxes)
    IN  /\ Last \in counted
        /\ {w[2] : w \in {v \in wrote : v[1] = "crops" /\ v[3] = Last}}
             = {CropName(Last, i) : i \in 0..(n - 1)}
        /\ \A k \in 1..n :
             /\ CropName(Last, k - 1) \in DOMAIN crops
             /\ LET c == crops[CropName(Last, k - 1)]
                    b == boxes[k].xyxy
                IN  /\ c.src = Last
                    /\ c.box = [j \in 1..4 |-> b[j] \div 10]
                    /\ c.w = (b[3] - b[1]) \div 10
                    /\ c.h = (b[4] - b[2]) \div 10
             /\ RowsOf(Last)[k][3] = <<"detection", k>>

\* C9: processed_images never exceeds the number of images iterated, and the
\* returned total_detections is the number of boxes of the images counted in
\* processed_images.
C9_CountersFromCompletedExports ==
  /\ pc = "loop" => processed_images <= pos
  /\ Returned => summary.total_detections = SumBoxes(counted)

\* C10: within one call no file of labels/ or crops/ is written for two
\* different images.
C10_NoSharedArtifact ==
  \A v, w \in wrote :
    (v[1] \in {"labels", "crops"} /\ v[1] = w[1] /\ v[2] = w[2]) => v[3] = w[3]

====
